---- MODULE Spec2Model ----
\* Model of the notice board's Synchronization Hub (server.ts), its SQLite
\* notice table and the wire vocabulary of types.ts.
EXTENDS Integers, Sequences, FiniteSets, TLC

\* ---------------------------------------------------------------- bounds
MaxConns == 2      \* sockets that may ever connect
MaxWrites == 3     \* SQL statements that may commit
MaxTime == 2       \* clock ticks that may pass
TickMs == 500      \* milliseconds in a clock tick
MaxIds == 2        \* notice ids in the facts put to an App directly

\* CURRENT_TIMESTAMP counts seconds, new Date().toISOString() milliseconds
MsPerSec == 1000

Conns == 1..MaxConns

\* ---------------------------------------------------------------- values
Undefined == "<undefined>"   \* the JavaScript value undefined
Null == "<null>"             \* JavaScript null / SQL NULL
Absent == "<absent>"         \* a key JSON.stringify has left out

Categories == {"Academic", "Event", "Exam", "General", "Emergency"}
Priorities == {"Low", "Medium", "High"}

ValidInput ==
  [title |-> "Exam Schedule", content |-> "Finals begin Monday", category |-> "Exam",
   priority |-> "High", author |-> "Registrar", expiresAt |-> Undefined]

\* the notice bodies a client may put into ADD_NOTICE: the cast to ClientEvent
\* checks nothing, so any JSON value can arrive
NoticeInputs ==
  { ValidInput,
    [ValidInput EXCEPT !.expiresAt = "2026-12-31"],
    [ValidInput EXCEPT !.title = ""],
    [ValidInput EXCEPT !.content = ""],
    [ValidInput EXCEPT !.category = "Sports"],
    [ValidInput EXCEPT !.priority = "Urgent"],
    [ValidInput EXCEPT !.title = Null],
    [ValidInput EXCEPT !.author = Undefined] }

NoData == [text |-> "", type |-> "", hasBody |-> FALSE, notice |-> ValidInput, id |-> 0]

\* payloads that are no command: invalid JSON, an unknown type, a known type without body
Malformed ==
  { [NoData EXCEPT !.text = "}{"],
    [NoData EXCEPT !.text = "json", !.type = "PING"],
    [NoData EXCEPT !.text = "json", !.type = "ADD_NOTICE"],
    [NoData EXCEPT !.text = "json", !.type = "DELETE_NOTICE"] }

AddNoticeOf(n) ==
  [text |-> "json", type |-> "ADD_NOTICE", hasBody |-> TRUE, notice |-> n, id |-> 0]

DeleteNoticeOf(i) ==
  [text |-> "json", type |-> "DELETE_NOTICE", hasBody |-> TRUE, notice |-> ValidInput, id |-> i]

\* the ids a client may put into DELETE_NOTICE: those the store has given out and the next one
DeleteIds(sequence) == 1..(sequence + 1)

\* inbound payloads (the text of a WebSocket message) of the protocol runs
Payloads(sequence) ==
  Malformed \cup {AddNoticeOf(ValidInput)} \cup {DeleteNoticeOf(i) : i \in DeleteIds(sequence)}

\* inbound payloads of the input runs: every notice body
InputPayloads == {AddNoticeOf(n) : n \in NoticeInputs}

\* ---------------------------------------------------------------- state
VARIABLES
  rows,      \* the notices table: id -> row
  seq,       \* sqlite_sequence: the largest rowid the table has ever held
  now,       \* the clock, in milliseconds
  state,     \* readyState of each socket ("NONE" before it connects)
  clients,   \* wss.clients
  inbox,     \* what has been sent on each socket, in order (dropped when it closes)
  applied,   \* the INSERT and DELETE statements committed so far, in order
  hubUp,     \* the server process is running
  last,      \* whether the event handled last was dropped, and how
  mirror,    \* the notices state of the App behind each socket
  seen,      \* how many of the facts sent on each socket its App has handled
  skipped    \* the CLOSED sockets that a broadcast has passed over since they closed

vars == <<rows, seq, now, state, clients, inbox, applied, hubUp, last, mirror, seen, skipped>>

\* what the hub's handlers never touch
appVars == <<mirror, seen, skipped>>

\* ---------------------------------------------------------------- helpers
Max(a, b) == IF a >= b THEN a ELSE b

MaxOf(S) == IF S = {} THEN 0 ELSE CHOOSE x \in S : \A y \in S : y <= x

\* ---------------------------------------------------------------- store
\* createdAt DATETIME DEFAULT CURRENT_TIMESTAMP: "YYYY-MM-DD HH:MM:SS", UTC
SqlTimestamp(t) == [fmt |-> "sql", sec |-> t \div MsPerSec, ms |-> 0]

\* new Date().toISOString(): "YYYY-MM-DDTHH:MM:SS.sssZ"
IsoTimestamp(t) == [fmt |-> "iso", sec |-> t \div MsPerSec, ms |-> t % MsPerSec]

\* expiresAt || null
OrNull(v) == IF v \in {Undefined, Null, ""} THEN Null ELSE v

\* the six values bound to the INSERT, in order
InsertParams(n) ==
  <<n.title, n.content, n.category, n.priority, n.author, OrNull(n.expiresAt)>>

\* better-sqlite3 throws a TypeError when asked to bind undefined
BindThrows(params) == \E i \in 1..Len(params) : params[i] = Undefined

NotNullColumns == 1..5   \* title, content, category, priority, author

\* SQLITE_CONSTRAINT_NOTNULL: the statement throws and writes nothing
ConstraintThrows(params) == \E i \in NotNullColumns : params[i] = Null

InsertThrows(n) == BindThrows(InsertParams(n)) \/ ConstraintThrows(InsertParams(n))

\* a mutant of NextRowid: the table declared without AUTOINCREMENT
NextRowidNoAutoincrement(table, sequence) == MaxOf(DOMAIN table) + 1

\* INTEGER PRIMARY KEY AUTOINCREMENT: one more than the largest rowid ever held
NextRowid(table, sequence) == Max(sequence, MaxOf(DOMAIN table)) + 1

\* the row the INSERT writes
NewRow(id, n, t) ==
  [id |-> id, title |-> n.title, content |-> n.content, category |-> n.category,
   priority |-> n.priority, author |-> n.author, createdAt |-> SqlTimestamp(t),
   expiresAt |-> OrNull(n.expiresAt)]

\* table with the row r added under r.id
WithRow(table, r) ==
  [i \in DOMAIN table \cup {r.id} |-> IF i = r.id THEN r ELSE table[i]]

\* a mutant of WithoutRow: DELETE FROM notices WHERE id <= ?
WithoutRowsUpTo(table, id) == [i \in {j \in DOMAIN table : j > id} |-> table[i]]

\* DELETE FROM notices WHERE id = ?
WithoutRow(table, id) == [i \in DOMAIN table \ {id} |-> table[i]]

\* all orders of the ids of S
RECURSIVE Perms(_)
Perms(S) ==
  IF S = {} THEN {<<>>}
  ELSE UNION {{<<x>> \o p : p \in Perms(S \ {x})} : x \in S}

\* ORDER BY createdAt DESC (SQL leaves the order of equal keys open)
SortedDesc(table, p) ==
  \A i, j \in 1..Len(p) : i < j => table[p[i]].createdAt.sec >= table[p[j]].createdAt.sec

\* a mutant of ListAll: the query misses the newest row
ListAllStale(table) ==
  {[i \in 1..Len(p) |-> table[p[i]]] :
     p \in {q \in Perms(DOMAIN table \ {MaxOf(DOMAIN table)}) : SortedDesc(table, q)}}

\* SELECT * FROM notices ORDER BY createdAt DESC: the results the query may give
ListAll(table) ==
  {[i \in 1..Len(p) |-> table[p[i]]] : p \in {q \in Perms(DOMAIN table) : SortedDesc(table, q)}}

\* ---------------------------------------------------------------- wire
\* JSON.stringify leaves out a key whose value is undefined
Stringify(n) == [n EXCEPT !.expiresAt = IF @ = Undefined THEN Absent ELSE @]

\* the notice the ADD_NOTICE handler builds for the broadcast
NewNotice(id, n, t) ==
  [id |-> id, title |-> n.title, content |-> n.content, category |-> n.category,
   priority |-> n.priority, author |-> n.author, expiresAt |-> n.expiresAt,
   createdAt |-> IsoTimestamp(t)]

InitialState(notices) ==
  [type |-> "INITIAL_STATE", notices |-> [i \in 1..Len(notices) |-> Stringify(notices[i])]]
NoticeAdded(notice) == [type |-> "NOTICE_ADDED", notice |-> Stringify(notice)]
NoticeDeleted(id) == [type |-> "NOTICE_DELETED", id |-> id]

\* ---------------------------------------------------------------- hub
Event(c, kind) == [conn |-> c, kind |-> kind]

Sent(event, commits) == [fact |-> event, commits |-> commits]

\* a mutant of Broadcast: no readyState check
BroadcastUnchecked(box, event, commits) ==
  [c \in Conns |-> IF c \in clients THEN Append(box[c], Sent(event, commits)) ELSE box[c]]

\* a mutant of Broadcast: every client is sent the event twice
BroadcastTwice(box, event, commits) ==
  [c \in Conns |->
     IF c \in clients /\ state[c] = "OPEN"
       THEN box[c] \o <<Sent(event, commits), Sent(event, commits)>>
       ELSE box[c]]

\* a mutant of Broadcast: the hub keeps its own list of the sockets it has accepted
BroadcastToAccepted(box, event, commits) ==
  [c \in Conns |-> IF state[c] # "NONE" THEN Append(box[c], Sent(event, commits)) ELSE box[c]]

\* broadcast: send the event to every client of wss.clients that is OPEN
Broadcast(box, event, commits) ==
  [c \in Conns |->
     IF c \in clients /\ state[c] = "OPEN"
       THEN Append(box[c], Sent(event, commits))
       ELSE box[c]]

\* a committed statement and the number of rows it changed
Statement(op, id, changes) == [op |-> op, id |-> id, changes |-> changes]

Init ==
  /\ rows = [i \in {} |-> 0]
  /\ seq = 0
  /\ now = 0
  /\ state = [c \in Conns |-> "NONE"]
  /\ clients = {}
  /\ inbox = [c \in Conns |-> <<>>]
  /\ applied = <<>>
  /\ hubUp = TRUE
  /\ last = Event(0, "ok")
  /\ mirror = [c \in Conns |-> <<>>]
  /\ seen = [c \in Conns |-> 0]
  /\ skipped = {}

\* an exception nobody catches in a handler of socket c ends the process and with it
\* every socket
Crash(c) ==
  /\ hubUp' = FALSE
  /\ state' = [d \in Conns |-> IF state[d] = "NONE" /\ d # c THEN "NONE" ELSE "CLOSED"]
  /\ clients' = {}
  /\ inbox' = [d \in Conns |-> <<>>]

\* wss.on("connection"): query the snapshot and send it; no try/catch
Connect(c) ==
  /\ hubUp
  /\ state[c] = "NONE"
  /\ \A d \in Conns : d < c => state[d] # "NONE"    \* sockets are numbered as they arrive
  /\ \E storeFails \in BOOLEAN :
       IF storeFails
         THEN /\ Crash(c)
              /\ last' = Event(c, "uncaught")
              /\ UNCHANGED <<rows, seq, now, applied>>
         ELSE \E notices \in ListAll(rows) :
                /\ state' = [state EXCEPT ![c] = "OPEN"]
                /\ clients' = clients \cup {c}
                /\ inbox' = [inbox EXCEPT ![c] = <<Sent(InitialState(notices), Len(applied))>>]
                /\ last' = Event(0, "ok")
                /\ UNCHANGED <<rows, seq, now, applied, hubUp>>

\* a mutant of Caught: the handler has no try/catch, the exception ends the process
Uncaught(c, kind) ==
  /\ Crash(c)
  /\ last' = Event(c, kind)
  /\ UNCHANGED <<rows, seq, now, applied>>

\* the catch block of the message handler: console.error, nothing else
Caught(c, kind) ==
  /\ last' = Event(c, kind)
  /\ UNCHANGED <<rows, seq, now, state, clients, inbox, applied, hubUp>>

\* a mutant of AddNotice: the fact is broadcast before the INSERT has committed
AddNoticeBroadcastFirst(c, data) ==
  LET id == NextRowid(rows, seq)
  IN /\ Len(applied) < MaxWrites
     /\ inbox' = Broadcast(inbox, NoticeAdded(NewNotice(id, data.notice, now)), Len(applied))
     /\ rows' = WithRow(rows, NewRow(id, data.notice, now))
     /\ seq' = id
     /\ applied' = Append(applied, Statement("INSERT", id, 1))
     /\ last' = Event(0, "ok")
     /\ UNCHANGED <<now, state, clients, hubUp>>

\* a mutant of AddNotice: the fact goes to every client but the one that sent the command
AddNoticeToOthers(c, data) ==
  LET id == NextRowid(rows, seq)
      log == Append(applied, Statement("INSERT", id, 1))
      box == Broadcast(inbox, NoticeAdded(NewNotice(id, data.notice, now)), Len(log))
  IN /\ Len(applied) < MaxWrites
     /\ rows' = WithRow(rows, NewRow(id, data.notice, now))
     /\ seq' = id
     /\ applied' = log
     /\ inbox' = [box EXCEPT ![c] = inbox[c]]
     /\ last' = Event(0, "ok")
     /\ UNCHANGED <<now, state, clients, hubUp>>

\* a mutant of AddNotice: the INSERT commits and nothing is broadcast
AddNoticeUnannounced(c, data) ==
  LET id == NextRowid(rows, seq)
  IN /\ Len(applied) < MaxWrites
     /\ rows' = WithRow(rows, NewRow(id, data.notice, now))
     /\ seq' = id
     /\ applied' = Append(applied, Statement("INSERT", id, 1))
     /\ last' = Event(0, "ok")
     /\ UNCHANGED <<now, state, clients, inbox, hubUp>>

\* the ADD_NOTICE branch: INSERT, then broadcast NOTICE_ADDED
AddNotice(c, data) ==
  LET id == NextRowid(rows, seq)
      log == Append(applied, Statement("INSERT", id, 1))
  IN /\ Len(applied) < MaxWrites
     /\ rows' = WithRow(rows, NewRow(id, data.notice, now))
     /\ seq' = id
     /\ applied' = log
     /\ inbox' = Broadcast(inbox, NoticeAdded(NewNotice(id, data.notice, now)), Len(log))
     /\ last' = Event(0, "ok")
     /\ UNCHANGED <<now, state, clients, hubUp>>

\* a mutant of DeleteNotice: the fact goes to every client but the one that sent the
\* command
DeleteNoticeToOthers(c, data) ==
  LET changes == IF data.id \in DOMAIN rows THEN 1 ELSE 0
      log == Append(applied, Statement("DELETE", data.id, changes))
      box == Broadcast(inbox, NoticeDeleted(data.id), Len(log))
  IN /\ Len(applied) < MaxWrites
     /\ rows' = WithoutRow(rows, data.id)
     /\ applied' = log
     /\ inbox' = [box EXCEPT ![c] = inbox[c]]
     /\ last' = Event(0, "ok")
     /\ UNCHANGED <<seq, now, state, clients, hubUp>>

\* a mutant of DeleteNotice: NOTICE_DELETED is broadcast only when a row was removed
DeleteNoticeIfChanged(c, data) ==
  LET changes == IF data.id \in DOMAIN rows THEN 1 ELSE 0
      log == Append(applied, Statement("DELETE", data.id, changes))
  IN /\ Len(applied) < MaxWrites
     /\ rows' = WithoutRow(rows, data.id)
     /\ applied' = log
     /\ inbox' = IF changes = 1 THEN Broadcast(inbox, NoticeDeleted(data.id), Len(log)) ELSE inbox
     /\ last' = Event(0, "ok")
     /\ UNCHANGED <<seq, now, state, clients, hubUp>>

\* the DELETE_NOTICE branch: DELETE, then broadcast NOTICE_DELETED
DeleteNotice(c, data) ==
  LET changes == IF data.id \in DOMAIN rows THEN 1 ELSE 0
      log == Append(applied, Statement("DELETE", data.id, changes))
  IN /\ Len(applied) < MaxWrites
     /\ rows' = WithoutRow(rows, data.id)
     /\ applied' = log
     /\ inbox' = Broadcast(inbox, NoticeDeleted(data.id), Len(log))
     /\ last' = Event(0, "ok")
     /\ UNCHANGED <<seq, now, state, clients, hubUp>>

\* the body of ws.on("message") for one payload
Handle(c, data, storeFails) ==
  IF data.text # "json"
    THEN Caught(c, "malformed")                      \* JSON.parse throws
  ELSE IF data.type = "ADD_NOTICE"
    THEN IF ~data.hasBody THEN Caught(c, "malformed") \* destructuring undefined throws
         ELSE IF storeFails THEN Caught(c, "failed")  \* run() throws
         ELSE IF InsertThrows(data.notice) THEN Caught(c, "rejected")
         ELSE AddNotice(c, data)
  ELSE IF data.type = "DELETE_NOTICE"
    THEN IF ~data.hasBody THEN Caught(c, "malformed") \* binding undefined throws
         ELSE IF storeFails THEN Caught(c, "failed")  \* run() throws
         ELSE DeleteNotice(c, data)
  ELSE /\ last' = Event(c, "malformed")               \* no branch taken
       /\ UNCHANGED <<rows, seq, now, state, clients, inbox, applied, hubUp>>

\* ws.on("message") fires for one payload on a socket that is OPEN
Receive(c, data, storeFails) ==
  /\ hubUp
  /\ state[c] = "OPEN"
  /\ Handle(c, data, storeFails)

\* ws.on("message"), the payload drawn from the protocol's commands and from no commands
OnMessage(c) == \E data \in Payloads(seq), storeFails \in BOOLEAN : Receive(c, data, storeFails)

\* ws.on("message"), the payload an ADD_NOTICE with any notice body
OnAddNotice(c) == \E data \in InputPayloads : Receive(c, data, FALSE)

\* the peer starts the closing handshake: readyState CLOSING, still in wss.clients
BeginClose(c) ==
  /\ hubUp
  /\ state[c] = "OPEN"
  /\ state' = [state EXCEPT ![c] = "CLOSING"]
  /\ last' = Event(0, "ok")
  /\ UNCHANGED <<rows, seq, now, clients, inbox, applied, hubUp>>

\* the socket closes (handshake done or transport lost): ws removes it from wss.clients
FinishClose(c) ==
  /\ hubUp
  /\ state[c] \in {"OPEN", "CLOSING"}
  /\ state' = [state EXCEPT ![c] = "CLOSED"]
  /\ clients' = clients \ {c}
  /\ inbox' = [inbox EXCEPT ![c] = <<>>]
  /\ last' = Event(0, "ok")
  /\ UNCHANGED <<rows, seq, now, applied, hubUp>>

\* time passes
Tick ==
  /\ now < MaxTime * TickMs
  /\ now' = now + TickMs
  /\ last' = Event(0, "ok")
  /\ UNCHANGED <<rows, seq, state, clients, inbox, applied, hubUp>>

Next ==
  \/ \E c \in Conns : Connect(c) /\ UNCHANGED appVars
  \/ \E c \in Conns : OnMessage(c) /\ UNCHANGED appVars
  \/ \E c \in Conns : BeginClose(c) /\ UNCHANGED appVars
  \/ \E c \in Conns : FinishClose(c) /\ UNCHANGED appVars

\* the protocol runs: connections come and go, commands and garbage arrive
Spec == Init /\ [][Next]_vars

NextInputs ==
  \/ Connect(1) /\ UNCHANGED appVars
  \/ OnAddNotice(1) /\ UNCHANGED appVars
  \/ Tick /\ UNCHANGED appVars

\* the input runs: one client; time passes and ADD_NOTICE arrives with every kind of
\* notice body
SpecInputs == Init /\ [][NextInputs]_vars

\* ---------------------------------------------------------------- closing
\* the commands of the protocol, well formed
Commands(sequence) ==
  {AddNoticeOf(ValidInput)} \cup {DeleteNoticeOf(i) : i \in DeleteIds(sequence)}

\* the forEach of broadcast visits wss.clients only: a socket that has closed is not
\* among them, the broadcast passes over it
PassOver ==
  skipped' = IF applied' # applied
               THEN skipped \cup {d \in Conns : state[d] = "CLOSED"}
               ELSE skipped

NextClose ==
  \/ \E c \in Conns : Connect(c) /\ UNCHANGED appVars
  \/ \E c \in Conns : \E data \in Commands(seq) :
        Receive(c, data, FALSE) /\ PassOver /\ UNCHANGED <<mirror, seen>>
  \/ \E c \in Conns : BeginClose(c) /\ UNCHANGED appVars
  \/ \E c \in Conns : FinishClose(c) /\ UNCHANGED appVars

\* the closing runs: sockets close while the commands of the others go on
SpecClose == Init /\ [][NextClose]_vars

\* ---------------------------------------------------------------- App
\* JSON.parse: a key the text leaves out reads as undefined
Parse(n) == [n EXCEPT !.expiresAt = IF @ = Absent THEN Undefined ELSE @]

\* JSON.parse(event.data) as ServerEvent
ParseFact(fact) ==
  CASE fact.type = "INITIAL_STATE" ->
         [fact EXCEPT !.notices = [i \in 1..Len(@) |-> Parse(@[i])]]
    [] fact.type = "NOTICE_ADDED" -> [fact EXCEPT !.notice = Parse(@)]
    [] OTHER -> fact

\* a mutant of SetNotices: NOTICE_DELETED splices at findIndex, which is -1 for an
\* id that is not there, and splice(-1, 1) takes the last entry
SetNoticesSplice(prev, data) ==
  CASE data.type = "INITIAL_STATE" -> data.notices
    [] data.type = "NOTICE_ADDED" -> <<data.notice>> \o prev
    [] data.type = "NOTICE_DELETED" ->
         LET found == {i \in DOMAIN prev : prev[i].id = data.id}
             at == IF found = {} THEN Len(prev)
                   ELSE CHOOSE i \in found : \A j \in found : i <= j
         IN [i \in 1..(Len(prev) - (IF prev = <<>> THEN 0 ELSE 1)) |->
               IF i < at THEN prev[i] ELSE prev[i + 1]]
    [] OTHER -> prev

\* a mutant of SetNotices: NOTICE_ADDED appends
SetNoticesAppend(prev, data) ==
  CASE data.type = "INITIAL_STATE" -> data.notices
    [] data.type = "NOTICE_ADDED" -> Append(prev, data.notice)
    [] data.type = "NOTICE_DELETED" -> SelectSeq(prev, LAMBDA n : n.id # data.id)
    [] OTHER -> prev

\* a mutant of SetNotices: NOTICE_DELETED has no case
SetNoticesNoDelete(prev, data) ==
  CASE data.type = "INITIAL_STATE" -> data.notices
    [] data.type = "NOTICE_ADDED" -> <<data.notice>> \o prev
    [] OTHER -> prev

\* the switch of socket.onmessage: the next value of notices
SetNotices(prev, data) ==
  CASE data.type = "INITIAL_STATE" -> data.notices
    [] data.type = "NOTICE_ADDED" -> <<data.notice>> \o prev
    [] data.type = "NOTICE_DELETED" -> SelectSeq(prev, LAMBDA n : n.id # data.id)
    [] OTHER -> prev

\* socket.onmessage: the App handles the next fact sent on its socket
OnSocketMessage(c) ==
  /\ seen[c] < Len(inbox[c])
  /\ mirror' = [mirror EXCEPT ![c] = SetNotices(@, ParseFact(inbox[c][seen[c] + 1].fact))]
  /\ seen' = [seen EXCEPT ![c] = @ + 1]
  /\ last' = Event(0, "ok")
  /\ UNCHANGED <<rows, seq, now, state, clients, inbox, applied, hubUp, skipped>>

\* what the App can send: the notice of the form, and the id of a card it shows
Emits(c) ==
  {AddNoticeOf(ValidInput)} \cup {DeleteNoticeOf(mirror[c][i].id) : i \in DOMAIN mirror[c]}

\* a mutant of Send: deleteNotice drops the card at once, before the hub has answered
SendOptimistic(c, data) ==
  mirror' = [mirror EXCEPT ![c] = IF data.type = "DELETE_NOTICE"
                                    THEN SelectSeq(@, LAMBDA n : n.id # data.id)
                                    ELSE @]

\* addNotice and deleteNotice: socket.send, no setNotices
Send(c, data) == mirror' = mirror

\* the App sends a command and the hub handles it
Command(c) ==
  \E data \in Emits(c), storeFails \in BOOLEAN :
    /\ Send(c, data)
    /\ Receive(c, data, storeFails)
    /\ UNCHANGED <<seen, skipped>>

\* the App of a socket that is gone is gone with its state (the effect's cleanup
\* closes the socket when the App unmounts)
Unmount ==
  /\ mirror' = [c \in Conns |-> IF inbox'[c] = <<>> THEN <<>> ELSE mirror[c]]
  /\ seen' = [c \in Conns |-> IF inbox'[c] = <<>> THEN 0 ELSE seen[c]]
  /\ UNCHANGED skipped

NextClient ==
  \/ \E c \in Conns : Connect(c) /\ Unmount
  \/ \E c \in Conns : Command(c)
  \/ \E c \in Conns : OnSocketMessage(c)
  \/ \E c \in Conns : FinishClose(c) /\ Unmount

\* the client runs: Apps connect, fold the facts they are sent, send commands, unmount
SpecClient == Init /\ [][NextClient]_vars

\* the App sends a command and the hub handles it, the store at hand
CommandTaken(c) ==
  \E data \in Emits(c) :
    /\ Send(c, data)
    /\ Receive(c, data, FALSE)
    /\ UNCHANGED <<seen, skipped>>

NextDeliver ==
  \/ \E c \in Conns : Connect(c) /\ Unmount
  \/ \E c \in Conns : CommandTaken(c)
  \/ \E c \in Conns : OnSocketMessage(c)
  \/ \E c \in Conns : FinishClose(c) /\ Unmount

\* the client runs whose commands the store accepts, and in which the App handles,
\* sooner or later, every fact that has arrived on its socket: the browser dispatches
\* a message event for each
FairClient ==
  Init /\ [][NextDeliver]_vars /\ \A c \in Conns : WF_vars(OnSocketMessage(c))

\* the facts of the protocol that change a sequence of notices, for a few ids
Facts ==
  {NoticeAdded(NewNotice(i, ValidInput, now)) : i \in 1..MaxIds}
    \cup {NoticeDeleted(i) : i \in DeleteIds(MaxIds)}

\* a fact arrives on the socket of an App
FactArrives(c) ==
  /\ state[c] = "OPEN"
  /\ Len(inbox[c]) <= MaxWrites
  /\ \E fact \in Facts : inbox' = [inbox EXCEPT ![c] = Append(@, Sent(fact, 0))]
  /\ last' = Event(0, "ok")
  /\ UNCHANGED <<rows, seq, now, state, clients, applied, hubUp, appVars>>

NextFacts ==
  \/ Connect(1) /\ Unmount
  \/ FactArrives(1)
  \/ OnSocketMessage(1)

\* the fact runs: one App, put to every short sequence of facts after its snapshot,
\* whatever hub may have sent them
SpecFacts == Init /\ [][NextFacts]_vars

\* ---------------------------------------------------------------- properties
\* the ids in the store after the statements of log, by the meaning of INSERT and DELETE
RECURSIVE LiveAfter(_)
LiveAfter(log) ==
  IF log = <<>> THEN {}
  ELSE LET before == LiveAfter(SubSeq(log, 1, Len(log) - 1))
           st == log[Len(log)]
       IN IF st.op = "INSERT" THEN before \cup {st.id} ELSE before \ {st.id}

Connected == {c \in Conns : inbox[c] # <<>>}

Snapshot(c) == inbox[c][1]

SnapshotIds(c) ==
  {Snapshot(c).fact.notices[i].id : i \in 1..Len(Snapshot(c).fact.notices)}

\* the positions of the facts sent on c after its INITIAL_STATE
Later(c) == 2..Len(inbox[c])

\* the fact is the one the handler broadcasts for the statement
Reports(fact, st) ==
  \/ fact.type = "NOTICE_ADDED" /\ st.op = "INSERT" /\ fact.notice.id = st.id
  \/ fact.type = "NOTICE_DELETED" /\ st.op = "DELETE" /\ fact.id = st.id

\* C1: the INITIAL_STATE sent to a connecting client holds exactly the notices that were
\* added and not deleted before the connection, each once and as the store holds it.
C1_SnapshotIsStoreAtConnect ==
  \A c \in Connected :
    /\ Snapshot(c).fact.type = "INITIAL_STATE"
    /\ SnapshotIds(c) = LiveAfter(SubSeq(applied, 1, Snapshot(c).commits))
    /\ Len(Snapshot(c).fact.notices) = Cardinality(SnapshotIds(c))
    /\ \A i \in 1..Len(Snapshot(c).fact.notices) :
         LET n == Snapshot(c).fact.notices[i]
         IN n.id \in DOMAIN rows => n = Stringify(rows[n.id])

\* a client has connected after one notice was added and deleted and another added
C1_Witness ==
  \E c \in Connected :
    /\ Snapshot(c).commits = 3
    /\ SnapshotIds(c) = {2}
    /\ \E k \in 1..3 : applied[k].op = "DELETE" /\ applied[k].changes = 1

\* C2: write before broadcast: every NOTICE_ADDED or NOTICE_DELETED fact a client has
\* been sent reports a statement that had committed when the fact was sent, and the
\* store at that moment held the added notice, or no longer held the deleted one.
C2_WriteBeforeBroadcast ==
  \A c \in Connected : \A i \in Later(c) :
    LET f == inbox[c][i]
        committed == SubSeq(applied, 1, f.commits)
    IN /\ f.commits <= Len(applied)
       /\ \E k \in 1..f.commits : Reports(f.fact, committed[k])
       /\ f.fact.type = "NOTICE_ADDED" => f.fact.notice.id \in LiveAfter(committed)
       /\ f.fact.type = "NOTICE_DELETED" => f.fact.id \notin LiveAfter(committed)

\* a client has been sent a NOTICE_ADDED and a NOTICE_DELETED that removed a row
C2_Witness ==
  \E c \in Connected : \E i, j \in Later(c) :
    /\ inbox[c][i].fact.type = "NOTICE_ADDED"
    /\ inbox[c][j].fact.type = "NOTICE_DELETED"
    /\ applied[inbox[c][j].commits].changes = 1

\* C3: a broadcast appends its fact to the inbox of every socket that is OPEN at that
\* moment, the sender's included, and sends nothing on any other socket.
C3_BroadcastToOpenOnly ==
  [][applied' # applied =>
       \A c \in Conns :
         IF state[c] = "OPEN"
           THEN /\ Len(inbox'[c]) = Len(inbox[c]) + 1
                /\ SubSeq(inbox'[c], 1, Len(inbox[c])) = inbox[c]
                /\ Reports(inbox'[c][Len(inbox'[c])].fact, applied'[Len(applied')])
           ELSE inbox'[c] = inbox[c]]_vars

\* a fact was broadcast while one socket was CLOSING and another OPEN
C3_Witness ==
  \E c, d \in Connected :
    /\ state[c] = "CLOSING"
    /\ state[d] = "OPEN"
    /\ Snapshot(c).commits < Len(applied)
    /\ inbox[c][Len(inbox[c])].commits < Len(applied)
    /\ inbox[d][Len(inbox[d])].commits = Len(applied)

\* C4: the facts a client is sent after its INITIAL_STATE are the statements committed
\* since its snapshot, one fact per statement, none missing, in commit order; so two
\* clients are sent the same fact for the same statement.
C4_FactsFollowCommitOrder ==
  /\ \A c \in Connected : \A i \in Later(c) :
       LET f == inbox[c][i]
       IN /\ f.commits = Snapshot(c).commits + i - 1
          /\ f.commits <= Len(applied)
          /\ Reports(f.fact, applied[f.commits])
  /\ \A c \in Connected : state[c] = "OPEN" => Snapshot(c).commits + Len(inbox[c]) - 1 = Len(applied)
  /\ \A c, d \in Connected : \A i \in Later(c), j \in Later(d) :
       inbox[c][i].commits = inbox[d][j].commits => inbox[c][i].fact = inbox[d][j].fact

\* two clients that connected at different moments have each been sent two facts, of
\* different types
C4_Witness ==
  \E c, d \in Connected :
    /\ Snapshot(c).commits < Snapshot(d).commits
    /\ Len(inbox[d]) >= 3
    /\ \E i, j \in Later(d) : inbox[d][i].fact.type # inbox[d][j].fact.type

\* C5: a client that was connected when a notice was inserted and is sent the
\* NOTICE_DELETED of a later DELETE of that id has been sent its NOTICE_ADDED before.
C5_AddedSeenBeforeDeleted ==
  \A c \in Connected : \A j \in Later(c) :
    LET f == inbox[c][j]
    IN ( /\ f.fact.type = "NOTICE_DELETED"
         /\ \E k \in (Snapshot(c).commits + 1)..(f.commits - 1) :
              k <= Len(applied) /\ applied[k].op = "INSERT" /\ applied[k].id = f.fact.id )
       => \E i \in Later(c) :
            /\ i < j
            /\ inbox[c][i].fact.type = "NOTICE_ADDED"
            /\ inbox[c][i].fact.notice.id = f.fact.id

\* the only client there has ever been (so the sender of every command) has been sent
\* NOTICE_ADDED and then NOTICE_DELETED for one id
C5_Witness ==
  /\ \A d \in Conns : d # 1 => state[d] = "NONE"
  /\ \E i, j \in Later(1) :
       /\ i < j
       /\ inbox[1][i].fact.type = "NOTICE_ADDED"
       /\ inbox[1][j].fact.type = "NOTICE_DELETED"
       /\ inbox[1][j].fact.id = inbox[1][i].fact.notice.id

\* C6: every INSERT gets an id greater than the id of every earlier INSERT, deleted or
\* not, and each NOTICE_ADDED carries the id of its INSERT.
C6_IdsIncrease ==
  /\ \A i, j \in 1..Len(applied) :
       (i < j /\ applied[i].op = "INSERT" /\ applied[j].op = "INSERT")
         => applied[i].id < applied[j].id
  /\ \A c \in Connected : \A i \in Later(c) :
       LET f == inbox[c][i]
       IN f.fact.type = "NOTICE_ADDED" =>
            /\ f.commits \in 1..Len(applied)
            /\ applied[f.commits].op = "INSERT"
            /\ f.fact.notice.id = applied[f.commits].id
  /\ \A c, d \in Connected : \A i \in Later(c), j \in Later(d) :
       ( /\ inbox[c][i].fact.type = "NOTICE_ADDED"
         /\ inbox[d][j].fact.type = "NOTICE_ADDED"
         /\ inbox[c][i].commits < inbox[d][j].commits )
       => inbox[c][i].fact.notice.id < inbox[d][j].fact.notice.id

\* the notice with the highest id was deleted and a client was then sent the
\* NOTICE_ADDED of a further notice
C6_Witness ==
  /\ Len(applied) = 3
  /\ applied[1].op = "INSERT"
  /\ applied[2] = Statement("DELETE", applied[1].id, 1)
  /\ applied[3].op = "INSERT"
  /\ \E c \in Connected : \E i \in Later(c) :
       inbox[c][i].commits = 3 /\ inbox[c][i].fact.type = "NOTICE_ADDED"

\* what the specification's create() accepts
ValidNotice(n) ==
  /\ n.title # ""
  /\ n.content # ""
  /\ n.category \in Categories
  /\ n.priority \in Priorities

\* C7: an ADD_NOTICE with an empty title or content, or a category or priority outside
\* the enumerated sets, writes no row and is not broadcast.
C7_InvalidAddDropped ==
  /\ \A id \in DOMAIN rows : ValidNotice(rows[id])
  /\ \A c \in Connected : \A i \in Later(c) :
       inbox[c][i].fact.type = "NOTICE_ADDED" => ValidNotice(inbox[c][i].fact.notice)

\* the positions at which c was sent the fact of statement k
SentFor(c, k) == {i \in Later(c) : inbox[c][i].commits = k}

\* C8: a DELETE removes a row exactly when the id is in the store, so the second of two
\* DELETEs of an id changes nothing; and every DELETE, whether or not it removed a row,
\* is broadcast as one NOTICE_DELETED{id} to the clients that are connected.
C8_DeleteTwice ==
  /\ DOMAIN rows = LiveAfter(applied)
  /\ \A k \in 1..Len(applied) :
       applied[k].op = "DELETE" =>
         applied[k].changes =
           (IF applied[k].id \in LiveAfter(SubSeq(applied, 1, k - 1)) THEN 1 ELSE 0)
  /\ \A i, j \in 1..Len(applied) :
       ( /\ i < j
         /\ applied[i].op = "DELETE" /\ applied[j].op = "DELETE"
         /\ applied[i].id = applied[j].id
         /\ applied[i].changes = 1 )
       => applied[j].changes = 0
  /\ \A c \in Connected : state[c] = "OPEN" =>
       \A k \in (Snapshot(c).commits + 1)..Len(applied) :
         applied[k].op = "DELETE" =>
           /\ Cardinality(SentFor(c, k)) = 1
           /\ \A i \in SentFor(c, k) : inbox[c][i].fact = NoticeDeleted(applied[k].id)

\* a notice was inserted and deleted twice while a client was connected: the first DELETE
\* removed the row, the second removed nothing, the client was sent two NOTICE_DELETED
C8_Witness ==
  /\ Len(applied) = 3
  /\ applied[1].op = "INSERT"
  /\ applied[2] = Statement("DELETE", applied[1].id, 1)
  /\ applied[3] = Statement("DELETE", applied[1].id, 0)
  /\ \E c \in Connected :
       /\ state[c] = "OPEN"
       /\ Snapshot(c).commits = 0
       /\ inbox[c][3].fact = NoticeDeleted(applied[1].id)
       /\ inbox[c][4].fact = NoticeDeleted(applied[1].id)

\* C9: handling a payload that is no command (invalid JSON, an unknown type, a known
\* type without body) changes neither the store nor any socket nor any inbox, the hub
\* keeps running and the sender stays OPEN; and in the state it leaves, a valid
\* ADD_NOTICE from the same socket is applied and sent back to it.
C9_MalformedIgnored ==
  /\ [][last'.kind = "malformed" =>
          /\ rows' = rows /\ seq' = seq /\ applied' = applied
          /\ inbox' = inbox /\ state' = state /\ clients' = clients
          /\ hubUp'
          /\ state'[last'.conn] = "OPEN"]_vars
  /\ []((last.kind = "malformed" /\ Len(applied) < MaxWrites) =>
          ENABLED ( /\ Receive(last.conn, AddNoticeOf(ValidInput), FALSE)
                    /\ Len(applied') = Len(applied) + 1
                    /\ Len(inbox'[last.conn]) = Len(inbox[last.conn]) + 1 ))

\* a payload that is no command has just been handled on a socket that has been sent
\* facts, with notices in the store
C9_Witness ==
  /\ last.kind = "malformed"
  /\ state[last.conn] = "OPEN"
  /\ Len(inbox[last.conn]) >= 2
  /\ DOMAIN rows # {}
  /\ Len(applied) < MaxWrites

\* C10: a store failure while the hub handles an event of one connection never stops
\* the hub, drops the command without a write or a broadcast, and leaves every other
\* connection as it was.
C10_FailureContained ==
  [][last'.kind \in {"failed", "uncaught"} =>
       /\ hubUp'
       /\ rows' = rows /\ applied' = applied
       /\ \A d \in Conns \ {last'.conn} : state'[d] = state[d] /\ inbox'[d] = inbox[d]]_vars

\* a step leaves every CLOSED socket as it is, and a socket that closes while the hub
\* runs takes nothing else with it
ClosedIsLeftAlone ==
  /\ \A c \in Conns :
       state[c] = "CLOSED" =>
         /\ inbox'[c] = inbox[c]
         /\ state'[c] = "CLOSED"
         /\ c \notin clients'
  /\ \A c \in Conns :
       (hubUp' /\ state[c] # "CLOSED" /\ state'[c] = "CLOSED") =>
         /\ last' = Event(0, "ok")
         /\ rows' = rows /\ seq' = seq /\ applied' = applied
         /\ \A d \in Conns \ {c} :
              /\ state'[d] = state[d]
              /\ inbox'[d] = inbox[d]
              /\ (d \in clients') = (d \in clients)

\* C11: a socket that is CLOSED is sent nothing more, stays CLOSED and is not in the
\* hub's broadcast set; a socket closing while the hub runs raises no error and
\* changes neither the store nor any other socket
C11_ClosedIsLeftAlone == [][ClosedIsLeftAlone]_vars

\* a broadcast has passed over a closed socket and reached one that is OPEN
C11_Witness ==
  /\ hubUp
  /\ \E c \in skipped : state[c] = "CLOSED" /\ inbox[c] = <<>> /\ c \notin clients
  /\ \E d \in Conns : state[d] = "OPEN" /\ Len(inbox[d]) >= 2

\* C12: the notice of every NOTICE_ADDED fact is the row that was written: while the
\* row is in the store, each field of it, createdAt too, is what a snapshot taken
\* now carries for that id
C12_AddedIsTheRowWritten ==
  \A c \in Connected : \A i \in Later(c) :
    LET fact == inbox[c][i].fact
    IN (fact.type = "NOTICE_ADDED" /\ fact.notice.id \in DOMAIN rows) =>
         fact.notice = Stringify(rows[fact.notice.id])

\* C13: the notices of every snapshot are ordered by createdAt descending, and those of
\* equal createdAt by id descending
C13_SnapshotOrder ==
  \A c \in Connected :
    LET notices == Snapshot(c).fact.notices
    IN \A i, j \in DOMAIN notices :
         i < j =>
           \/ notices[i].createdAt.sec > notices[j].createdAt.sec
           \/ /\ notices[i].createdAt = notices[j].createdAt
              /\ notices[i].id > notices[j].id

\* the App of socket c is connected and has handled every fact sent to it
CaughtUp(c) == state[c] = "OPEN" /\ seen[c] >= 1 /\ seen[c] = Len(inbox[c])

MirrorIds(c) == {mirror[c][i].id : i \in DOMAIN mirror[c]}

\* the facts the App of socket c has handled after its snapshot
Handled(c) == {inbox[c][i].fact : i \in 2..seen[c]}

Delivered(c, k) ==
  \E i \in 2..seen[c] : inbox[c][i].commits = k /\ Reports(inbox[c][i].fact, applied[k])

\* every socket that was OPEN when statement k was broadcast and still is has been
\* delivered its fact
DeliveredToOpen(k) ==
  \A c \in Conns : (state[c] = "OPEN" /\ Snapshot(c).commits < k) => Delivered(c, k)

\* C15: every INSERT and every DELETE the store has committed is eventually followed by
\* its NOTICE_ADDED or NOTICE_DELETED fact delivered to every socket that was OPEN at
\* the broadcast and stays so, the sender's among them
C15_CommittedIsDelivered ==
  \A k \in 1..MaxWrites : (Len(applied) >= k) ~> DeliveredToOpen(k)

\* two clients, one of them the sender, have been delivered the facts of an INSERT and
\* of a DELETE
C15_Witness ==
  /\ \A c \in Conns : state[c] = "OPEN"
  /\ \E k, l \in 1..Len(applied) :
       /\ applied[k].op = "INSERT" /\ applied[l].op = "DELETE"
       /\ \A c \in Conns : Snapshot(c).commits < k /\ Delivered(c, k) /\ Delivered(c, l)

\* the connection handler of socket c threw before it sent anything
NeverGreeted(c) == state[c] = "CLOSED" /\ last = Event(c, "uncaught")

\* what socket c has been sent starts with its one INITIAL_STATE
GreetedOnce(c) ==
  /\ inbox[c] # <<>>
  /\ Snapshot(c).fact.type = "INITIAL_STATE"
  /\ \A i \in Later(c) : inbox[c][i].fact.type # "INITIAL_STATE"

\* C16: every socket the hub has accepted is sent exactly one INITIAL_STATE, and before
\* any NOTICE_ADDED or NOTICE_DELETED
C16_OneSnapshotFirst ==
  /\ \A c \in Conns : state[c] \in {"OPEN", "CLOSING"} => GreetedOnce(c)
  /\ \A c \in Conns : ~NeverGreeted(c)

\* the facts the App of socket c has handled, as it reads them, in order
HandledFacts(c) == [i \in 1..seen[c] |-> ParseFact(inbox[c][i].fact)]

\* notices without the entries of the given id
RECURSIVE Without(_, _)
Without(notices, id) ==
  IF notices = <<>> THEN <<>>
  ELSE IF Head(notices).id = id THEN Without(Tail(notices), id)
  ELSE <<Head(notices)>> \o Without(Tail(notices), id)

\* the fold of the three rules over a sequence of facts, from the empty sequence:
\* INITIAL_STATE replaces, NOTICE_ADDED prepends, NOTICE_DELETED removes
RECURSIVE Fold(_)
Fold(facts) ==
  IF facts = <<>> THEN <<>>
  ELSE LET fact == facts[Len(facts)]
           before == Fold(SubSeq(facts, 1, Len(facts) - 1))
       IN IF fact.type = "INITIAL_STATE" THEN fact.notices
          ELSE IF fact.type = "NOTICE_ADDED" THEN <<fact.notice>> \o before
          ELSE Without(before, fact.id)

\* C17: the notices of an App are the fold of the facts it has handled under the three
\* rules: INITIAL_STATE replaces the sequence, NOTICE_ADDED prepends its notice,
\* NOTICE_DELETED removes every entry of its id and nothing when there is none
C17_MirrorIsFold == \A c \in Conns : mirror[c] = Fold(HandledFacts(c))

\* an App has replaced, prepended and removed, and has handled a NOTICE_DELETED for
\* an id it did not hold
C17_Witness ==
  \E c \in Conns : \E i, j \in 2..seen[c] :
    /\ HandledFacts(c)[i].type = "NOTICE_ADDED"
    /\ i < j
    /\ HandledFacts(c)[j].type = "NOTICE_DELETED"
    /\ \A k \in DOMAIN Fold(SubSeq(HandledFacts(c), 1, j - 1)) :
         Fold(SubSeq(HandledFacts(c), 1, j - 1))[k].id # HandledFacts(c)[j].id

\* the step is an App sending a command: the hub either commits a statement for it or
\* drops it
CommandSent == applied' # applied \/ last'.kind \in {"malformed", "failed", "rejected"}

\* sending changes no App's notices; a command the hub drops puts no fact on any
\* socket either, so nothing changes them later on its account
SendingLeavesNotices ==
  /\ CommandSent => mirror' = mirror /\ seen' = seen
  /\ last'.kind \in {"malformed", "failed", "rejected"} => inbox' = inbox /\ rows' = rows

\* C18: sending ADD_NOTICE or DELETE_NOTICE leaves the sender's notices as they are (they
\* change only when a fact is handled), and a command the hub drops never changes them
C18_SendingLeavesNotices == [][SendingLeavesNotices]_vars

\* an App that shows notices has sent a command the hub took, whose fact it has not
\* handled yet, and one the hub dropped
C18_Witness ==
  /\ last.kind = "failed"
  /\ state[last.conn] = "OPEN"
  /\ mirror[last.conn] # <<>>
  /\ seen[last.conn] < Len(inbox[last.conn])

\* what a step does to the table: a row that stays keeps every field; a committed
\* INSERT adds the one row of its new id; a committed DELETE takes away the row of its
\* id, if there is one, and no other; a step that commits nothing leaves the table
StoreFrame ==
  /\ \A i \in DOMAIN rows \cap DOMAIN rows' : rows'[i] = rows[i]
  /\ applied' = applied => rows' = rows
  /\ applied' # applied =>
       LET st == applied'[Len(applied')]
       IN /\ applied' = Append(applied, st)
          /\ st.op = "INSERT" =>
               /\ st.id \notin DOMAIN rows
               /\ DOMAIN rows' = DOMAIN rows \cup {st.id}
               /\ rows'[st.id].id = st.id
          /\ st.op = "DELETE" => DOMAIN rows' = DOMAIN rows \ {st.id}

\* C19: an accepted ADD_NOTICE inserts exactly one new row and leaves every other row
\* as it is; a DELETE_NOTICE removes at most the row of its id and leaves every other
\* row as it is; no step changes a field of a row that stays
C19_StoreFrame == [][StoreFrame]_vars

\* two rows were inserted, one of them was deleted and the other is still there
C19_Witness ==
  /\ Len(applied) = 3
  /\ applied[1].op = "INSERT" /\ applied[2].op = "INSERT" /\ applied[3].op = "DELETE"
  /\ applied[3].changes = 1
  /\ Cardinality(DOMAIN rows) = 1
  /\ DOMAIN rows = {applied[1].id, applied[2].id} \ {applied[3].id}

\* the ids of the notices of the App of socket c, in the order it holds them
MirrorOrder(c) == [i \in DOMAIN mirror[c] |-> mirror[c][i].id]

\* the ids are in the order of listAll: createdAt of the rows descending, id descending
\* among the rows of equal createdAt
InListAllOrder(ids) ==
  \A i, j \in DOMAIN ids :
    i < j =>
      \/ rows[ids[i]].createdAt.sec > rows[ids[j]].createdAt.sec
      \/ /\ rows[ids[i]].createdAt = rows[ids[j]].createdAt
         /\ ids[i] > ids[j]

\* C20: a client that has handled every fact sent to it holds the notices in the order
\* of listAll at that moment, so any two such clients, one that prepended the additions
\* and one that got them in a snapshot, hold them in the same order, also when notices
\* share a createdAt
C20_SameOrder ==
  /\ \A c \in Conns : CaughtUp(c) => InListAllOrder(MirrorOrder(c))
  /\ \A c, d \in Conns : (CaughtUp(c) /\ CaughtUp(d)) => MirrorOrder(c) = MirrorOrder(d)

\* no two entries of the sequence have the same id
NoDuplicateIds(notices) ==
  \A i, j \in DOMAIN notices : notices[i].id = notices[j].id => i = j

\* the facts sent on socket c that its App has yet to handle
Unhandled(c) == {inbox[c][i].fact : i \in (seen[c] + 1)..Len(inbox[c])}

\* C21: no App holds two notices of the same id, and no NOTICE_ADDED it has yet to
\* handle, the next one least of all, is for an id it holds, whether that id came in
\* its INITIAL_STATE or in an earlier NOTICE_ADDED
C21_NoDuplicateIds ==
  \A c \in Conns :
    /\ NoDuplicateIds(mirror[c])
    /\ seen[c] >= 1 =>
         \A f \in Unhandled(c) : f.type = "NOTICE_ADDED" => f.notice.id \notin MirrorIds(c)

\* an App holds a notice from its snapshot and one from a NOTICE_ADDED, and the next
\* fact it will handle is another NOTICE_ADDED
C21_Witness ==
  \E c \in Conns :
    /\ state[c] = "OPEN"
    /\ Snapshot(c).fact.notices # <<>>
    /\ seen[c] >= 2 /\ seen[c] < Len(inbox[c])
    /\ HandledFacts(c)[2].type = "NOTICE_ADDED"
    /\ Len(mirror[c]) >= 2
    /\ inbox[c][seen[c] + 1].fact.type = "NOTICE_ADDED"

\* the places of the entries of notices that are not of the given id
Kept(notices, id) == {i \in DOMAIN notices : notices[i].id # id}

\* after is notices with the entries of the given id taken out and every other entry
\* in its place among the others
OthersInPlace(notices, id, after) ==
  /\ Len(after) = Cardinality(Kept(notices, id))
  /\ \A i \in Kept(notices, id) :
       after[Cardinality({j \in Kept(notices, id) : j <= i})] = notices[i]

\* the step is the App of socket c handling a NOTICE_DELETED
HandlesDeleted(c) ==
  /\ seen'[c] = seen[c] + 1
  /\ inbox[c][seen'[c]].fact.type = "NOTICE_DELETED"

\* what handling NOTICE_DELETED does to the notices
DeletedFrame ==
  \A c \in Conns :
    HandlesDeleted(c) =>
      LET id == inbox[c][seen'[c]].fact.id
      IN /\ id \notin MirrorIds(c) => mirror'[c] = mirror[c]
         /\ OthersInPlace(mirror[c], id, mirror'[c])
         /\ \A n \in DOMAIN mirror'[c] : mirror'[c][n].id # id

====
